---- MODULE Spec2Model ----
(***************************************************************************)
(* Model of src/main.py: the three origami unit-cell generators            *)
(* (create_miura_ori, create_waterbomb, create_yoshimura), the renderer    *)
(* plot_origami_lattice and the module-level Streamlit script that wires   *)
(* them together.                                                          *)
(*                                                                         *)
(* Numbers.  Sizes are floats in the program; the model carries them as    *)
(* integers in tenths (size 1.0 is 10).  A coordinate is kept as the       *)
(* expression the code evaluates, <<c, f, a, b>>, standing for             *)
(* (c/20) * f(a*pi/b) with f one of "one", "cos", "sin"; the literal 0 of  *)
(* the source is Zero.  Python lists are sequences, and Python index k is  *)
(* position k+1 of the sequence.                                           *)
(***************************************************************************)
EXTENDS Integers, Sequences, FiniteSets, TLC

VARIABLES call, raised, pattern, fig, earlier

vars == <<call, raised, pattern, fig, earlier>>

(***************************************************************************)
(* Bounds of the model                                                     *)
(***************************************************************************)
MaxSegments == 6
MaxFaceLen == 5

Sizes == {0, 10, 20}
Angles == {30, 45, 90}
Segments == -1 .. MaxSegments
FaceLens == 3 .. MaxFaceLen

None == [tag |-> "None"]

Generators == {"create_miura_ori", "create_waterbomb", "create_yoshimura"}

(***************************************************************************)
(* Coordinates                                                             *)
(***************************************************************************)
Zero == <<0, "one", 0, 1>>
Const(c) == <<c, "one", 0, 1>>
Cos(c, a, b) == <<c, "cos", a, b>>
Sin(c, a, b) == <<c, "sin", a, b>>

PatternInstance(v, f, m, w) ==
    [vertices |-> v, faces |-> f, mountain_folds |-> m, valley_folds |-> w]

Returned(p) == [raised |-> "none", pattern |-> p]
Raise(e) == [raised |-> e, pattern |-> None]

(***************************************************************************)
(* create_miura_ori                                                        *)
(***************************************************************************)
MiuraVertices(size, angle) ==
    << <<Zero, Zero, Zero>>,
       <<Cos(2 * size, angle, 180), Zero, Sin(2 * size, angle, 180)>>,
       <<Cos(2 * size, angle, 180), Const(2 * size), Sin(2 * size, angle, 180)>>,
       <<Zero, Const(2 * size), Zero>>,
       <<Cos(4 * size, angle, 180), Zero, Zero>>,
       <<Cos(4 * size, angle, 180), Const(2 * size), Zero>> >>

MiuraFaces == << <<0, 1, 2, 3>>, <<1, 4, 5, 2>> >>

MiuraMountainFolds == << <<1, 2>> >>

MiuraValleyFoldsSlip == << <<0, 1>>, <<2, 3>>, <<1, 4>>, <<4, 5>> >>

MiuraValleyFolds == << <<0, 1>>, <<2, 3>>, <<1, 4>>, <<2, 5>> >>

create_miura_ori(size, angle) ==
    Returned(PatternInstance(MiuraVertices(size, angle), MiuraFaces,
                             MiuraMountainFolds, MiuraValleyFolds))

(***************************************************************************)
(* create_waterbomb                                                        *)
(***************************************************************************)
WaterbombVertices(size) ==
    << <<Zero, Zero, Zero>>,
       <<Const(2 * size), Zero, Zero>>,
       <<Cos(2 * size, 1, 3), Sin(2 * size, 1, 3), Zero>>,
       <<Cos(-(2 * size), 1, 3), Sin(2 * size, 1, 3), Zero>>,
       <<Const(-(2 * size)), Zero, Zero>>,
       <<Cos(-(2 * size), 1, 3), Sin(-(2 * size), 1, 3), Zero>>,
       <<Cos(2 * size, 1, 3), Sin(-(2 * size), 1, 3), Zero>> >>

WaterbombFacesOpen ==
    << <<0, 1, 2>>, <<0, 2, 3>>, <<0, 3, 4>>,
       <<0, 4, 5>>, <<0, 5, 6>>, <<0, 6, 7>> >>

WaterbombFaces ==
    << <<0, 1, 2>>, <<0, 2, 3>>, <<0, 3, 4>>,
       <<0, 4, 5>>, <<0, 5, 6>>, <<0, 6, 1>> >>

WaterbombMountainFolds == << <<0, 2>>, <<0, 4>>, <<0, 6>> >>

WaterbombValleyFoldsSlip == << <<0, 1>>, <<0, 3>>, <<4, 0>> >>

WaterbombValleyFolds == << <<0, 1>>, <<0, 3>>, <<0, 5>> >>

create_waterbomb(size) ==
    Returned(PatternInstance(WaterbombVertices(size), WaterbombFaces,
                             WaterbombMountainFolds, WaterbombValleyFolds))

(***************************************************************************)
(* create_yoshimura                                                        *)
(***************************************************************************)
RECURSIVE YoshimuraVertexLoop(_, _, _, _)
YoshimuraVertexLoop(size, num_segments, i, vertices) ==
    IF i >= num_segments THEN vertices
    ELSE YoshimuraVertexLoop(size, num_segments, i + 1,
           Append(Append(vertices,
               <<Cos(2 * size, 2 * i, num_segments),
                 Sin(2 * size, 2 * i, num_segments), Zero>>),
               <<Cos(2 * size, 2 * i, num_segments),
                 Sin(2 * size, 2 * i, num_segments), Const(size)>>))

YoshimuraVerticesShared(size, num_segments) ==
    YoshimuraVertexLoop(size, num_segments, 0,
        IF pattern = None THEN << >> ELSE pattern.vertices)

YoshimuraVertices(size, num_segments) ==
    YoshimuraVertexLoop(size, num_segments, 0, << >>)

RECURSIVE YoshimuraFaceLoop(_, _, _)
YoshimuraFaceLoop(num_segments, i, faces) ==
    IF i >= num_segments THEN faces
    ELSE LET i1 == 2 * i
             i2 == 2 * i + 1
             i3 == 2 * ((i + 1) % num_segments)
             i4 == 2 * ((i + 1) % num_segments) + 1
         IN  YoshimuraFaceLoop(num_segments, i + 1,
                               Append(faces, <<i1, i2, i4, i3>>))

RECURSIVE YoshimuraFaceLoopNoWrap(_, _, _)
YoshimuraFaceLoopNoWrap(num_segments, i, faces) ==
    IF i >= num_segments THEN faces
    ELSE LET i1 == 2 * i
             i2 == 2 * i + 1
             i3 == 2 * (i + 1)
             i4 == 2 * (i + 1) + 1
         IN  YoshimuraFaceLoopNoWrap(num_segments, i + 1,
                                     Append(faces, <<i1, i2, i4, i3>>))

RECURSIVE YoshimuraFaceLoopSwapped(_, _, _)
YoshimuraFaceLoopSwapped(num_segments, i, faces) ==
    IF i >= num_segments THEN faces
    ELSE LET i1 == 2 * i
             i2 == 2 * i + 1
             i3 == 2 * ((i + 1) % num_segments)
             i4 == 2 * ((i + 1) % num_segments) + 1
         IN  YoshimuraFaceLoopSwapped(num_segments, i + 1,
                                      Append(faces, <<i1, i2, i3, i4>>))

YoshimuraFacesNoWrap(num_segments) ==
    YoshimuraFaceLoopNoWrap(num_segments, 0, << >>)

YoshimuraFacesSwapped(num_segments) ==
    YoshimuraFaceLoopSwapped(num_segments, 0, << >>)

YoshimuraFaces(num_segments) == YoshimuraFaceLoop(num_segments, 0, << >>)

RECURSIVE YoshimuraFoldLoop(_, _, _, _)
YoshimuraFoldLoop(num_segments, i, mountain_folds, valley_folds) ==
    IF i >= num_segments
    THEN [mountain_folds |-> mountain_folds, valley_folds |-> valley_folds]
    ELSE IF i % 2 = 0
         THEN YoshimuraFoldLoop(num_segments, i + 1,
                  Append(mountain_folds, <<2 * i, 2 * i + 1>>), valley_folds)
         ELSE YoshimuraFoldLoop(num_segments, i + 1,
                  mountain_folds, Append(valley_folds, <<2 * i, 2 * i + 1>>))

RECURSIVE YoshimuraFoldLoopFlipped(_, _, _, _)
YoshimuraFoldLoopFlipped(num_segments, i, mountain_folds, valley_folds) ==
    IF i >= num_segments
    THEN [mountain_folds |-> mountain_folds, valley_folds |-> valley_folds]
    ELSE IF i % 2 = 1
         THEN YoshimuraFoldLoopFlipped(num_segments, i + 1,
                  Append(mountain_folds, <<2 * i, 2 * i + 1>>), valley_folds)
         ELSE YoshimuraFoldLoopFlipped(num_segments, i + 1,
                  mountain_folds, Append(valley_folds, <<2 * i, 2 * i + 1>>))

RECURSIVE YoshimuraFoldLoopThirds(_, _, _, _)
YoshimuraFoldLoopThirds(num_segments, i, mountain_folds, valley_folds) ==
    IF i >= num_segments
    THEN [mountain_folds |-> mountain_folds, valley_folds |-> valley_folds]
    ELSE IF i % 3 = 0
         THEN YoshimuraFoldLoopThirds(num_segments, i + 1,
                  Append(mountain_folds, <<2 * i, 2 * i + 1>>), valley_folds)
         ELSE YoshimuraFoldLoopThirds(num_segments, i + 1,
                  mountain_folds, Append(valley_folds, <<2 * i, 2 * i + 1>>))

YoshimuraFoldsFlipped(num_segments) ==
    YoshimuraFoldLoopFlipped(num_segments, 0, << >>, << >>)

YoshimuraFoldsThirds(num_segments) ==
    YoshimuraFoldLoopThirds(num_segments, 0, << >>, << >>)

YoshimuraFolds(num_segments) == YoshimuraFoldLoop(num_segments, 0, << >>, << >>)

\* angle = 2 * np.pi / num_segments divides a Python float by the caller's
\* integer: num_segments = 0 raises ZeroDivisionError before anything is built.
create_yoshimura(size, num_segments) ==
    IF num_segments = 0 THEN Raise("ZeroDivisionError")
    ELSE LET folds == YoshimuraFolds(num_segments)
         IN  Returned(PatternInstance(YoshimuraVertices(size, num_segments),
                                      YoshimuraFaces(num_segments),
                                      folds.mountain_folds,
                                      folds.valley_folds))

(***************************************************************************)
(* plot_origami_lattice                                                    *)
(***************************************************************************)
\* Python's range(lo, hi) as a list.
Range(lo, hi) == [t \in 1 .. (IF hi > lo THEN hi - lo ELSE 0) |-> lo + t - 1]

\* Python's [0] * count.
Zeros(count) == [t \in 1 .. (IF count > 0 THEN count ELSE 0) |-> 0]

\* vertices[face]: the rows of the vertex array picked by the face's indices.
VerticesFace(vertices, face) == [t \in 1 .. Len(face) |-> vertices[face[t] + 1]]

Column(rows, c) == [t \in 1 .. Len(rows) |-> rows[t][c]]

FanI(face) == Zeros(Len(face) - 2)

FanJLong(face) == Range(1, Len(face))

FanJ(face) == Range(1, Len(face) - 1)

FanK(face) == Range(2, Len(face))

MeshTrace(vertices, face, colorscale) ==
    LET vertices_face == VerticesFace(vertices, face)
    IN  [type |-> "mesh3d",
         x |-> Column(vertices_face, 1),
         y |-> Column(vertices_face, 2),
         z |-> Column(vertices_face, 3),
         i |-> FanI(face), j |-> FanJ(face), k |-> FanK(face),
         opacity |-> "0.7", colorscale |-> colorscale]

FoldLine(vertices, fold) ==
    [x |-> <<vertices[fold[1] + 1][1], vertices[fold[2] + 1][1]>>,
     y |-> <<vertices[fold[1] + 1][2], vertices[fold[2] + 1][2]>>,
     z |-> <<vertices[fold[1] + 1][3], vertices[fold[2] + 1][3]>>]

MountainTrace(vertices, fold) ==
    [type |-> "scatter3d", at |-> FoldLine(vertices, fold), mode |-> "lines",
     line |-> [color |-> "red", width |-> 4, dash |-> "solid"],
     name |-> "Mountain fold"]

ValleyTrace(vertices, fold) ==
    [type |-> "scatter3d", at |-> FoldLine(vertices, fold), mode |-> "lines",
     line |-> [color |-> "blue", width |-> 4, dash |-> "dash"],
     name |-> "Valley fold"]

Layout ==
    [aspectmode |-> "cube", xaxis_title |-> "X", yaxis_title |-> "Y",
     zaxis_title |-> "Z", showlegend |-> TRUE,
     margin |-> [l |-> 0, r |-> 0, t |-> 0, b |-> 0]]

\* The three add_trace loops, in source order.
FigureData(vertices, faces, mountain_folds, valley_folds, colorscale) ==
    [t \in 1 .. Len(faces) |-> MeshTrace(vertices, faces[t], colorscale)]
    \o [t \in 1 .. Len(mountain_folds) |-> MountainTrace(vertices, mountain_folds[t])]
    \o [t \in 1 .. Len(valley_folds) |-> ValleyTrace(vertices, valley_folds[t])]

plot_origami_lattice(vertices, faces, mountain_folds, valley_folds, colorscale) ==
    [data |-> FigureData(vertices, faces, mountain_folds, valley_folds, colorscale),
     layout |-> Layout]

(***************************************************************************)
(* Inputs                                                                  *)
(***************************************************************************)
\* Two of the options of the "Color Scheme" selectbox, the first and the last.
ColorSchemes == {"Viridis", "Rainbow"}

\* The values the sliders can deliver, among the model's inputs:
\* st.slider("Unit Size", 0.5, 2.0), ("Fold Angle", 30, 60),
\* ("Number of Segments", 4, 12).
SliderSizes == {s \in Sizes : 5 <= s /\ s <= 20}
SliderAngles == {a \in Angles : 30 <= a /\ a <= 60}
SliderSegments == {n \in Segments : 4 <= n /\ n <= 12}

\* A pattern instance written by a caller of the renderer: one polygonal
\* face of face_len vertices on the unit circle, no folds.
CallerPattern(face_len) ==
    PatternInstance([t \in 1 .. face_len |->
                        <<Cos(20, 2 * (t - 1), face_len),
                          Sin(20, 2 * (t - 1), face_len), Zero>>],
                    << Range(0, face_len) >>, << >>, << >>)

(***************************************************************************)
(* State                                                                   *)
(*   call     the last generator invocation, [fn, args]                    *)
(*   raised   the exception it ended with, or "none"                       *)
(*   pattern  the pattern instance it returned, or None                    *)
(*   fig      the figure rendered from that instance, or None              *)
(*   earlier  one earlier generator invocation with its outcome, kept to   *)
(*            compare later invocations with (a history variable); again   *)
(*            tells that a generator has been invoked since                *)
(***************************************************************************)
Init ==
    /\ call = None
    /\ raised = "none"
    /\ pattern = None
    /\ fig = None
    /\ earlier = None

Invocation(fn, args) == [fn |-> fn, args |-> args]

\* The outcome of a generator invocation becomes the state; the history
\* variable either keeps the invocation it holds or takes this one.
Invoke(fn, args, outcome) ==
    /\ call' = Invocation(fn, args)
    /\ raised' = outcome.raised
    /\ pattern' = outcome.pattern
    /\ \/ earlier' = IF earlier = None THEN None
                      ELSE [earlier EXCEPT !.again = TRUE]
       \/ earlier' = [call |-> Invocation(fn, args), raised |-> outcome.raised,
                      pattern |-> outcome.pattern, again |-> FALSE]

CallMiuraOri ==
    \E size \in Sizes, angle \in Angles :
        /\ Invoke("create_miura_ori", <<size, angle>>, create_miura_ori(size, angle))
        /\ fig' = None

CallWaterbomb ==
    \E size \in Sizes :
        /\ Invoke("create_waterbomb", <<size>>, create_waterbomb(size))
        /\ fig' = None

CallYoshimura ==
    \E size \in Sizes, num_segments \in Segments :
        /\ Invoke("create_yoshimura", <<size, num_segments>>,
                  create_yoshimura(size, num_segments))
        /\ fig' = None

CallerSupplies ==
    \E face_len \in FaceLens :
        /\ call' = Invocation("caller", <<face_len>>)
        /\ raised' = "none"
        /\ pattern' = CallerPattern(face_len)
        /\ fig' = None
        /\ UNCHANGED earlier

CallPlot ==
    \E colorscale \in ColorSchemes :
        /\ pattern # None
        /\ fig' = plot_origami_lattice(pattern.vertices, pattern.faces,
                                       pattern.mountain_folds,
                                       pattern.valley_folds, colorscale)
        /\ UNCHANGED <<call, raised, pattern, earlier>>

\* One run of the Streamlit script: the widgets deliver their values, the
\* selected generator runs and its instance is rendered.  The angle slider
\* exists only for Miura-ori and the segment slider only for Yoshimura.
Render(outcome, colorscale) ==
    plot_origami_lattice(outcome.pattern.vertices, outcome.pattern.faces,
                         outcome.pattern.mountain_folds,
                         outcome.pattern.valley_folds, colorscale)

ScriptRun ==
    \E size \in SliderSizes, colorscale \in ColorSchemes :
        \/ \E angle \in SliderAngles :
              /\ Invoke("create_miura_ori", <<size, angle>>,
                        create_miura_ori(size, angle))
              /\ fig' = Render(create_miura_ori(size, angle), colorscale)
        \/ /\ Invoke("create_waterbomb", <<size>>, create_waterbomb(size))
           /\ fig' = Render(create_waterbomb(size), colorscale)
        \/ \E segments \in SliderSegments :
              /\ Invoke("create_yoshimura", <<size, segments>>,
                        create_yoshimura(size, segments))
              /\ fig' = Render(create_yoshimura(size, segments), colorscale)

Next ==
    \/ CallMiuraOri
    \/ CallWaterbomb
    \/ CallYoshimura
    \/ CallerSupplies
    \/ CallPlot
    \/ ScriptRun

Spec == Init /\ [][Next]_vars

(***************************************************************************)
(* Vocabulary of the properties                                            *)
(***************************************************************************)
\* The last invocation was generator fn and it returned a pattern instance.
ReturnedBy(fn) == call # None /\ call.fn = fn /\ raised = "none" /\ pattern # None

\* The instances the contracts speak of: any Miura-ori or Waterbomb
\* instance, and the Yoshimura instances with num_segments >= 3.
InContract ==
    \/ ReturnedBy("create_miura_ori")
    \/ ReturnedBy("create_waterbomb")
    \/ ReturnedBy("create_yoshimura") /\ call.args[2] >= 3

\* An edge as an unordered pair of vertex indices.
Edge(e) == {e[1], e[2]}

EdgeSet(folds) == {Edge(folds[t]) : t \in 1 .. Len(folds)}

\* The sides of a face: consecutive indices, the last joined to the first.
FaceEdges(face) == {{face[t], face[(t % Len(face)) + 1]} : t \in 1 .. Len(face)}

IndexLists(p) ==
    {p.faces[t] : t \in 1 .. Len(p.faces)}
    \cup {p.mountain_folds[t] : t \in 1 .. Len(p.mountain_folds)}
    \cup {p.valley_folds[t] : t \in 1 .. Len(p.valley_folds)}

Occurrences(list, e) == Cardinality({t \in 1 .. Len(list) : list[t] = e})

\* The classification of the vertical edge of Yoshimura segment i.
SegmentClass(p, i) ==
    IF Occurrences(p.mountain_folds, <<2 * i, 2 * i + 1>>) > 0 THEN "mountain"
    ELSE IF Occurrences(p.valley_folds, <<2 * i, 2 * i + 1>>) > 0 THEN "valley"
    ELSE "none"

Opposite(a, b) == {a, b} = {"mountain", "valley"}

(***************************************************************************)
(* Properties                                                              *)
(***************************************************************************)

\* C1. Index bounds: in every pattern instance returned by create_miura_ori,
\* create_waterbomb or create_yoshimura (num_segments >= 3), every index of
\* a face, a mountain fold or a valley fold is >= 0 and < the number of
\* vertices returned.
IndexBounds ==
    InContract =>
        \A list \in IndexLists(pattern) : \A t \in 1 .. Len(list) :
            0 <= list[t] /\ list[t] < Len(pattern.vertices)

IndexBoundsWitness ==
    /\ ReturnedBy("create_yoshimura")
    /\ call.args[2] = 3
    /\ Len(pattern.faces) = 3
    /\ pattern.faces[3][3] = 1

\* C2. Disjointness: in every such instance no edge, taken as an unordered
\* pair of vertex indices, is both a mountain fold and a valley fold.
FoldsDisjoint ==
    InContract =>
        EdgeSet(pattern.mountain_folds) \cap EdgeSet(pattern.valley_folds) = {}

FoldsDisjointWitness ==
    /\ ReturnedBy("create_waterbomb")
    /\ Len(pattern.mountain_folds) = 3
    /\ Len(pattern.valley_folds) = 3

\* C3. Degenerate-input rejection: a generator invoked with size <= 0, and
\* create_yoshimura invoked with num_segments < 3, fails with
\* InvalidParameter and returns no pattern instance.
DegenerateRejected ==
    (/\ call # None
     /\ call.fn \in Generators
     /\ \/ call.args[1] <= 0
        \/ call.fn = "create_yoshimura" /\ call.args[2] < 3)
    => (raised = "InvalidParameter" /\ pattern = None)

\* C4. Yoshimura closed ring: for num_segments n >= 3 there are exactly n
\* faces, face i is [2i, 2i+1, 2j+1, 2j] with j = (i+1) mod n, and the last
\* two indices of face i are the same two vertices as the first two indices
\* of face j, the wrap from face n-1 to face 0 included.
YoshimuraClosedRing ==
    (ReturnedBy("create_yoshimura") /\ call.args[2] >= 3) =>
        LET n == call.args[2]
            faces == pattern.faces
        IN  /\ Len(faces) = n
            /\ \A i \in 0 .. n - 1 :
                  LET j == (i + 1) % n
                  IN  /\ faces[i + 1] = <<2 * i, 2 * i + 1, 2 * j + 1, 2 * j>>
                      /\ {faces[i + 1][3], faces[i + 1][4]}
                           = {faces[j + 1][1], faces[j + 1][2]}

YoshimuraClosedRingWitness ==
    /\ ReturnedBy("create_yoshimura")
    /\ call.args[2] = 5
    /\ pattern.faces[5] = <<8, 9, 1, 0>>

\* C5. Yoshimura fold classification: for num_segments n >= 3 there are
\* exactly 2n vertices; the vertical edge [2i, 2i+1] of each segment i is
\* classified exactly once, mountain iff i is even and valley iff i is odd;
\* there are ceil(n/2) mountain folds, floor(n/2) valley folds and no other
\* fold edges.
YoshimuraFoldClassification ==
    (ReturnedBy("create_yoshimura") /\ call.args[2] >= 3) =>
        LET n == call.args[2]
            m == pattern.mountain_folds
            v == pattern.valley_folds
            vertical == {<<2 * i, 2 * i + 1>> : i \in 0 .. n - 1}
        IN  /\ Len(pattern.vertices) = 2 * n
            /\ \A i \in 0 .. n - 1 :
                  LET e == <<2 * i, 2 * i + 1>>
                  IN  /\ Occurrences(m, e) + Occurrences(v, e) = 1
                      /\ Occurrences(m, e) = 1 <=> i % 2 = 0
                      /\ Occurrences(v, e) = 1 <=> i % 2 = 1
            /\ Len(m) = (n + 1) \div 2
            /\ Len(v) = n \div 2
            /\ \A t \in 1 .. Len(m) : m[t] \in vertical
            /\ \A t \in 1 .. Len(v) : v[t] \in vertical

YoshimuraFoldClassificationWitness ==
    /\ ReturnedBy("create_yoshimura")
    /\ call.args[2] = 6
    /\ Len(pattern.mountain_folds) = 3
    /\ Len(pattern.valley_folds) = 3

\* C6. Waterbomb topology: exactly 7 vertices, index 0 the centre; exactly 6
\* triangular faces, face i (i = 1..6) being {0, i, (i mod 6) + 1}; the fold
\* edges are exactly the six spokes from vertex 0, those to 2, 4, 6 mountain
\* and those to 1, 3, 5 valley, so consecutive spokes alternate all the way
\* round, from spoke 6 back to spoke 1 included.
WaterbombTopology ==
    ReturnedBy("create_waterbomb") =>
        LET m == pattern.mountain_folds
            v == pattern.valley_folds
        IN  /\ Len(pattern.vertices) = 7
            /\ pattern.vertices[1] = <<Zero, Zero, Zero>>
            /\ Len(pattern.faces) = 6
            /\ \A i \in 1 .. 6 :
                  /\ Len(pattern.faces[i]) = 3
                  /\ {pattern.faces[i][u] : u \in 1 .. 3} = {0, i, (i % 6) + 1}
            /\ Len(m) = 3 /\ EdgeSet(m) = {{0, 2}, {0, 4}, {0, 6}}
            /\ Len(v) = 3 /\ EdgeSet(v) = {{0, 1}, {0, 3}, {0, 5}}
            /\ \A k \in 1 .. 6 :
                  {0, k} \in EdgeSet(m) <=> {0, (k % 6) + 1} \in EdgeSet(v)

WaterbombTopologyWitness ==
    /\ ReturnedBy("create_waterbomb")
    /\ call.args = <<20>>
    /\ Len(pattern.faces) = 6

\* C7. Miura-ori topology: exactly 6 vertices, the 2 faces [0,1,2,3] and
\* [1,4,5,2], exactly 1 mountain fold {1,2} and exactly the 4 valley folds
\* {0,1}, {2,3}, {1,4}, {2,5}; the mountain fold is a side of both faces and
\* every valley fold is a side of exactly one face.
MiuraTopology ==
    ReturnedBy("create_miura_ori") =>
        LET m == pattern.mountain_folds
            v == pattern.valley_folds
            f == pattern.faces
            SidesWith(e) == {t \in 1 .. Len(f) : e \in FaceEdges(f[t])}
        IN  /\ Len(pattern.vertices) = 6
            /\ f = << <<0, 1, 2, 3>>, <<1, 4, 5, 2>> >>
            /\ Len(m) = 1 /\ EdgeSet(m) = {{1, 2}}
            /\ Len(v) = 4 /\ EdgeSet(v) = {{0, 1}, {2, 3}, {1, 4}, {2, 5}}
            /\ \A e \in EdgeSet(m) : Cardinality(SidesWith(e)) = 2
            /\ \A e \in EdgeSet(v) : Cardinality(SidesWith(e)) = 1

MiuraTopologyWitness ==
    /\ ReturnedBy("create_miura_ori")
    /\ call.args = <<10, 45>>
    /\ Len(pattern.valley_folds) = 4

RendererFan ==
    fig # None =>
        LET d == fig.data
            f == pattern.faces
            m == pattern.mountain_folds
            v == pattern.valley_folds
        IN  /\ Len(d) = Len(f) + Len(m) + Len(v)
            /\ \A t \in 1 .. Len(f) :
                  LET n == Len(f[t])
                      tr == d[t]
                  IN  /\ tr.type = "mesh3d"
                      /\ Len(tr.x) = n
                      /\ n >= 3 =>
                           /\ Len(tr.i) = n - 2
                           /\ Len(tr.j) = n - 2
                           /\ Len(tr.k) = n - 2
                           /\ \A u \in 1 .. n - 2 :
                                 /\ <<tr.i[u], tr.j[u], tr.k[u]>> = <<0, u, u + 1>>
                                 /\ tr.i[u] < n /\ tr.j[u] < n /\ tr.k[u] < n
                           /\ \A local \in 0 .. n - 1 :
                                 \E u \in 1 .. n - 2 :
                                     local \in {tr.i[u], tr.j[u], tr.k[u]}
            /\ \A t \in 1 .. Len(m) :
                  /\ d[Len(f) + t].type = "scatter3d"
                  /\ d[Len(f) + t].line.dash = "solid"
                  /\ d[Len(f) + t].at = FoldLine(pattern.vertices, m[t])
            /\ \A t \in 1 .. Len(v) :
                  /\ d[Len(f) + Len(m) + t].type = "scatter3d"
                  /\ d[Len(f) + Len(m) + t].line.dash = "dash"
                  /\ d[Len(f) + Len(m) + t].at = FoldLine(pattern.vertices, v[t])

RendererFanWitness ==
    /\ fig # None
    /\ ReturnedBy("create_miura_ori")
    /\ Len(fig.data) = 7
    /\ Len(fig.data[1].i) = 2

\* C10 as stated. Yoshimura cyclic alternation: for num_segments n >= 3 the
\* vertical folds of segments i and (i+1) mod n, the wrap from n-1 to 0
\* included, have opposite classifications.
YoshimuraCyclicAlternation ==
    (ReturnedBy("create_yoshimura") /\ call.args[2] >= 3) =>
        \A i \in 0 .. call.args[2] - 1 :
            Opposite(SegmentClass(pattern, i),
                     SegmentClass(pattern, (i + 1) % call.args[2]))

\* C10 as amended. For num_segments n >= 3 the vertical folds of segments i
\* and i+1 have opposite classifications for every i in 0..n-2; those of
\* segments n-1 and 0 are opposite exactly when n is even, and for odd n
\* both are mountain folds.
YoshimuraAlternation ==
    (ReturnedBy("create_yoshimura") /\ call.args[2] >= 3) =>
        LET n == call.args[2]
        IN  /\ \A i \in 0 .. n - 2 :
                  Opposite(SegmentClass(pattern, i), SegmentClass(pattern, i + 1))
            /\ Opposite(SegmentClass(pattern, n - 1), SegmentClass(pattern, 0))
                 <=> n % 2 = 0
            /\ n % 2 = 1 =>
                 /\ SegmentClass(pattern, n - 1) = "mountain"
                 /\ SegmentClass(pattern, 0) = "mountain"

YoshimuraAlternationWitness ==
    /\ ReturnedBy("create_yoshimura")
    /\ call.args[2] = 5
    /\ SegmentClass(pattern, 4) = "mountain"
    /\ SegmentClass(pattern, 0) = "mountain"

====
